---- MODULE Spec2Model ----
(***************************************************************************)
(* Layout/size engine of formfit (src/src/lib.rs): the primitive type      *)
(* model, power_of_2_greater_than, align_to and the two recursive folds    *)
(* Section::sizeof and Section::size_bits.                                 *)
(*                                                                         *)
(* The library is pure: a state records one call site, i.e. the value the  *)
(* functions are applied to (arg, of the sort named by kind) and the       *)
(* results of the functions already applied to it (result, a function from *)
(* the function's name to what it returned).                               *)
(*                                                                         *)
(* u64 arguments of power_of_2_greater_than are kept at their full width   *)
(* as four 16-bit limbs, most significant first.  Byte and bit sizes are   *)
(* naturals: every size the bounded inputs produce is far below 2^64, so   *)
(* no u64 operation of the folds wraps or panics.                          *)
(* PrimField.name, PrimField.endianness, Struct.name, Struct.packing and   *)
(* Union.name are never read by the size functions and are not carried.    *)
(***************************************************************************)
EXTENDS Integers, Naturals, Sequences, FiniteSets, TLC

VARIABLES kind, arg, result

vars == <<kind, arg, result>>

\* ---------------------------------------------------------------- bounds
MaxFields == 3
MaxInnerFields == 2
MaxOuterFields == 2
MaxCount == 2
MaxNumBits == 80
MaxSize == 12
MaxAlign == 9

\* ------------------------------------------------------- primitive types
IntWidth == {"Int8", "Int16", "Int32", "Int64"}

IntWidth_sizeof(width) ==
    CASE width = "Int8" -> 1
      [] width = "Int16" -> 2
      [] width = "Int32" -> 4
      [] width = "Int64" -> 8

Sign == {"Signed", "Unsiged"}

Float == {"Float", "Double"}

Float_sizeof(float) ==
    CASE float = "Float" -> 4
      [] float = "Double" -> 8

U8 == 0..255

PrimType ==
    {<<"Int", w, s>> : w \in IntWidth, s \in Sign}
        \cup {<<"Flt", f>> : f \in Float}
        \cup {<<"Bits", n>> : n \in U8}

\* ------------------------------------------------- u64 as 16-bit limbs
Limb == 2 ^ 16

\* `n as u64` for a value that fits one limb
as_u64(n) == <<0, 0, 0, n>>

\* 2u64.pow(e) for e < 64
u64_pow2(e) == [i \in 1..4 |-> IF 4 - i = e \div 16 THEN 2 ^ (e % 16) ELSE 0]

\* a < b on u64
u64_lt(a, b) ==
    \E i \in 1..4 : a[i] < b[i] /\ \A j \in 1..(i - 1) : a[j] = b[j]

RECURSIVE power_loop(_, _)
power_loop(power, num_bits) ==
    IF power < 64 /\ u64_lt(u64_pow2(power), num_bits)
    THEN power_loop(power + 1, num_bits)
    ELSE power

power_of_2_greater_than_from1(num_bits) == power_loop(1, num_bits)

power_of_2_greater_than(num_bits) == power_loop(0, num_bits)

PrimType_sizeof(t) ==
    CASE t[1] = "Int" -> IntWidth_sizeof(t[2])
      [] t[1] = "Flt" -> Float_sizeof(t[2])
      [] t[1] = "Bits" -> power_of_2_greater_than(as_u64(t[2]))

PrimType_size_bits(t) ==
    IF t[1] = "Bits" THEN t[2] ELSE PrimType_sizeof(t) * 8

\* ------------------------------------------------------------- align_to
align_to_nomask(size, align) ==
    LET a == align + (IF align = 0 THEN 1 ELSE 0)
        m == size % a
    IN  size + (a - m)

align_to(size, align) ==
    LET a == align + (IF align = 0 THEN 1 ELSE 0)
        m == size % a
        b == m # 0
    IN  size + (a - m) * (IF b THEN 1 ELSE 0)

\* ------------------------------------------------------- section engine
\* running size after the first k fields of the struct loop
RECURSIVE struct_running(_, _)
struct_running(sizes, k) ==
    IF k = 0 THEN 0
    ELSE align_to(struct_running(sizes, k - 1), sizes[k]) + sizes[k]

\* Struct arm of Section::sizeof, given the fields' sizeof values
Struct_sizeof_nostride(sizes) ==
    IF Len(sizes) > 0 THEN struct_running(sizes, Len(sizes)) ELSE 0

Struct_sizeof(sizes) ==
    IF Len(sizes) > 0
    THEN align_to(struct_running(sizes, Len(sizes)), sizes[1])
    ELSE 0

\* Struct arm of Section::size_bits, given the fields' sizeof values
Struct_size_bits_times8(sizes) ==
    IF Len(sizes) > 0
    THEN 8 * align_to(struct_running(sizes, Len(sizes)), sizes[1])
    ELSE 0

Struct_size_bits(sizes) ==
    IF Len(sizes) > 0
    THEN align_to(struct_running(sizes, Len(sizes)), sizes[1])
    ELSE 0

\* Array arm of Section::sizeof
Array_sizeof_padded(elem_size, num_elems) ==
    elem_size * num_elems + (IF num_elems > 1 THEN 1 ELSE 0)

Array_sizeof(elem_size, num_elems) == elem_size * num_elems

\* Array arm of Section::size_bits
Array_size_bits(elem_bits, num_elems) == elem_bits * num_elems

\* std::cmp::max
max(a, b) == IF b > a THEN b ELSE a

\* largest after the union loop has visited the first k fields
RECURSIVE union_largest(_, _)
union_largest(sizes, k) ==
    IF k = 0 THEN 0 ELSE max(union_largest(sizes, k - 1), sizes[k])

\* Union arm of Section::sizeof
Union_sizeof_last(sizes) ==
    IF Len(sizes) > 0 THEN sizes[Len(sizes)] ELSE 0

Union_sizeof(sizes) == union_largest(sizes, Len(sizes))

\* Union arm of Section::size_bits
Union_size_bits(bits) == union_largest(bits, Len(bits))

RECURSIVE Section_sizeof(_)
Section_sizeof(s) ==
    CASE s[1] = "Prim" -> PrimType_sizeof(s[2])
      [] s[1] = "Struct" ->
            Struct_sizeof([i \in 1..Len(s[2]) |-> Section_sizeof(s[2][i])])
      [] s[1] = "Array" -> Array_sizeof(Section_sizeof(s[2]), s[3])
      [] s[1] = "Union" ->
            Union_sizeof([i \in 1..Len(s[2]) |-> Section_sizeof(s[2][i])])

RECURSIVE Section_size_bits(_)
Section_size_bits(s) ==
    CASE s[1] = "Prim" -> PrimType_size_bits(s[2])
      [] s[1] = "Struct" ->
            Struct_size_bits([i \in 1..Len(s[2]) |-> Section_sizeof(s[2][i])])
      [] s[1] = "Array" -> Array_size_bits(Section_size_bits(s[2]), s[3])
      [] s[1] = "Union" ->
            Union_size_bits([i \in 1..Len(s[2]) |-> Section_size_bits(s[2][i])])

\* ------------------------------------------------------------ call sites
Prim(t) == <<"Prim", t>>

Int8 == Prim(<<"Int", "Int8", "Signed">>)
Int16 == Prim(<<"Int", "Int16", "Unsiged">>)
Int32 == Prim(<<"Int", "Int32", "Signed">>)
Double == Prim(<<"Flt", "Double">>)
Bits3 == Prim(<<"Bits", 3>>)

Leaves == {Int8, Int16, Int32, Double, Bits3}

InnerLeaves == {Int8, Int32}

SeqsUpTo(S, n) == UNION {[1..k -> S] : k \in 0..n}

Structs(base, nf) == {<<"Struct", fs>> : fs \in SeqsUpTo(base, nf)}

Unions(base, nf) == {<<"Union", fs>> : fs \in SeqsUpTo(base, nf)}

Arrays(base) == {<<"Array", e, n>> : e \in base, n \in 0..MaxCount}

Containers(base, nf) ==
    Structs(base, nf) \cup Unions(base, nf) \cup Arrays(base)

Shallow == Leaves \cup Containers(Leaves, MaxFields)

Inner == Leaves \cup Containers(InnerLeaves, MaxInnerFields)

Sections ==
    Shallow \cup Containers(Inner, MaxOuterFields) \cup Arrays(Shallow)

\* 2^k - 1 for k in 0..64
u64_ones(k) ==
    [i \in 1..4 |->
        LET b == k - 16 * (4 - i)
        IN  IF b <= 0 THEN 0 ELSE IF b >= 16 THEN Limb - 1 ELSE 2 ^ b - 1]

\* 2^k + 1 for k in 1..63
u64_pow2_plus1(k) == [u64_pow2(k) EXCEPT ![4] = @ + 1]

U64Args ==
    {as_u64(n) : n \in 0..MaxNumBits}
        \cup {u64_pow2(k) : k \in 0..63}
        \cup {u64_pow2_plus1(k) : k \in 1..63}
        \cup {u64_ones(k) : k \in 0..64}

AlignArgs == (0..MaxSize) \X (0..MaxAlign)

NoResult == [f \in {} |-> 0]

Returned(f) == f \in DOMAIN result

Init ==
    /\ result = NoResult
    /\ \/ kind = "Section" /\ arg \in Sections
       \/ kind = "PrimType" /\ arg \in PrimType
       \/ kind = "u64" /\ arg \in U64Args
       \/ kind = "align" /\ arg \in AlignArgs

Return(f, v) ==
    /\ ~Returned(f)
    /\ result' = (f :> v) @@ result
    /\ UNCHANGED <<kind, arg>>

CallSectionSizeof ==
    kind = "Section" /\ Return("sizeof", Section_sizeof(arg))

CallSectionSizeBits ==
    kind = "Section" /\ Return("size_bits", Section_size_bits(arg))

CallPrimTypeSizeof ==
    kind = "PrimType" /\ Return("sizeof", PrimType_sizeof(arg))

CallPrimTypeSizeBits ==
    kind = "PrimType" /\ Return("size_bits", PrimType_size_bits(arg))

CallPowerOf2GreaterThan ==
    kind = "u64"
        /\ Return("power_of_2_greater_than", power_of_2_greater_than(arg))

CallAlignTo ==
    kind = "align" /\ Return("align_to", align_to(arg[1], arg[2]))

Next ==
    \/ CallSectionSizeof
    \/ CallSectionSizeBits
    \/ CallPrimTypeSizeof
    \/ CallPrimTypeSizeBits
    \/ CallPowerOf2GreaterThan
    \/ CallAlignTo

Spec == Init /\ [][Next]_vars

TypeOK ==
    /\ kind \in {"Section", "PrimType", "u64", "align"}
    /\ \A f \in DOMAIN result : result[f] \in Nat

\* ---------------------------------------------------------------- claims
FieldSizes(fs) == [i \in 1..Len(fs) |-> Section_sizeof(fs[i])]

FieldBits(fs) == [i \in 1..Len(fs) |-> Section_size_bits(fs[i])]

RECURSIVE SumSeq(_, _)
SumSeq(q, k) == IF k = 0 THEN 0 ELSE SumSeq(q, k - 1) + q[k]

\* least multiple of a that is >= n (a > 0)
LeastMultiple(n, a) == CHOOSE r \in n..(n + a) : r % a = 0 /\ r - n < a

\* smallest exponent p with 2^p >= n, for n <= 256
SmallestExp(n) == CHOOSE p \in 0..8 : 2 ^ p >= n /\ \A q \in 0..(p - 1) : 2 ^ q < n

IsBits(t) == t[1] = "Bits"

RECURSIVE BitsFree(_)
BitsFree(s) ==
    CASE s[1] = "Prim" -> ~IsBits(s[2])
      [] s[1] = "Array" -> BitsFree(s[2])
      [] OTHER -> \A i \in 1..Len(s[2]) : BitsFree(s[2][i])

\* C1: for every n in 0..255, PrimType::Bits(n).sizeof() is 2^p with p the
\* smallest exponent such that 2^p >= n (the power of two, not the exponent).
C1_BitsSizeofIsPowerOfTwo ==
    (kind = "PrimType" /\ IsBits(arg) /\ Returned("sizeof"))
        => result["sizeof"] = 2 ^ SmallestExp(arg[2])

\* C2: on every Section tree without a Bits leaf size_bits is 8 * sizeof,
\* and every non-Bits primitive type has size_bits = 8 * sizeof.
C2_BitsAgreeWithBytes ==
    /\ (kind = "Section" /\ BitsFree(arg)
            /\ Returned("sizeof") /\ Returned("size_bits"))
        => result["size_bits"] = 8 * result["sizeof"]
    /\ (kind = "PrimType" /\ ~IsBits(arg)
            /\ Returned("sizeof") /\ Returned("size_bits"))
        => result["size_bits"] = 8 * result["sizeof"]

\* C3: power_of_2_greater_than(n) is the smallest exponent p in 0..64 with
\* 2^p >= n, 64 when no p < 64 has it; the listed literal cases hold and the
\* scan stops within 0..64.
C3_PowerIsSmallestExponent ==
    (kind = "u64" /\ Returned("power_of_2_greater_than")) =>
        LET r == result["power_of_2_greater_than"]
        IN  /\ r \in 0..64
            /\ r < 64 => ~u64_lt(u64_pow2(r), arg)
            /\ \A q \in 0..(r - 1) : u64_lt(u64_pow2(q), arg)
            /\ (arg[1] = 0 /\ arg[2] = 0 /\ arg[3] = 0) =>
                    /\ 2 ^ r >= arg[4]
                    /\ r > 0 => 2 ^ (r - 1) < arg[4]
            /\ arg = <<0, 0, 0, 0>> => r = 0
            /\ arg = <<0, 0, 0, 1>> => r = 0
            /\ arg = <<0, 0, 0, 32>> => r = 5
            /\ arg = <<0, 0, 0, 63>> => r = 6
            /\ arg = <<0, 0, 0, 64>> => r = 6
            /\ arg = <<0, 0, 0, 65>> => r = 7
            /\ arg = <<32768, 0, 0, 0>> => r = 63
            /\ arg = <<65535, 65535, 65535, 65535>> => r = 64

C3_Witness ==
    /\ kind = "u64"
    /\ arg = <<65535, 65535, 65535, 65535>>
    /\ Returned("power_of_2_greater_than")
    /\ result["power_of_2_greater_than"] = 64

\* C4: for align > 0, align_to(size, align) is the smallest multiple of
\* align that is >= size; align_to(size, 0) = size.
C4_AlignToLeastMultiple ==
    (kind = "align" /\ Returned("align_to")) =>
        LET size == arg[1]
            align == arg[2]
            r == result["align_to"]
        IN  /\ align > 0 =>
                /\ r >= size
                /\ r % align = 0
                /\ r - size < align
                /\ \A x \in size..r : x % align = 0 => x = r
            /\ align = 0 => r = size

C4_Witness ==
    /\ kind = "align"
    /\ arg = <<5, 4>>
    /\ Returned("align_to")
    /\ result["align_to"] = 8

\* running size of the struct fold, folded front to back with least multiples
RECURSIVE C5_Fold(_, _, _)
C5_Fold(sizes, i, size) ==
    IF i > Len(sizes) THEN size
    ELSE C5_Fold(sizes, i + 1,
            (IF sizes[i] = 0 THEN size ELSE LeastMultiple(size, sizes[i]))
                + sizes[i])

\* C5: sizeof of a Struct is 0 without fields, else the running size R of
\* the fold aligned up to the first field's size F; when F > 0 it is a
\* multiple of F, at least the sum of the fields' sizes, and less than F
\* above R.
C5_StructSizeof ==
    (kind = "Section" /\ arg[1] = "Struct" /\ Returned("sizeof")) =>
        LET sizes == FieldSizes(arg[2])
            r == result["sizeof"]
            R == C5_Fold(sizes, 1, 0)
        IN  /\ Len(sizes) = 0 => r = 0
            /\ Len(sizes) > 0 =>
                LET F == sizes[1]
                IN  /\ F = 0 => r = R
                    /\ F > 0 =>
                        /\ r = LeastMultiple(R, F)
                        /\ r % F = 0
                        /\ r >= SumSeq(sizes, Len(sizes))
                        /\ r >= R
                        /\ r - R < F

C5_Witness ==
    /\ kind = "Section"
    /\ arg = <<"Struct", <<Int32, Int8>>>>
    /\ Returned("sizeof")
    /\ result["sizeof"] = 8

\* C6: sizeof of a Union is the maximum of its fields' sizeof and size_bits
\* the maximum of its fields' size_bits: at least every member's size, equal
\* to one member's size when there is one, 0 for the empty union.
C6_UnionIsMax ==
    (kind = "Section" /\ arg[1] = "Union") =>
        LET IsMaxOf(r, q) ==
                /\ \A i \in 1..Len(q) : r >= q[i]
                /\ Len(q) > 0 => \E i \in 1..Len(q) : r = q[i]
                /\ Len(q) = 0 => r = 0
        IN  /\ Returned("sizeof") =>
                IsMaxOf(result["sizeof"], FieldSizes(arg[2]))
            /\ Returned("size_bits") =>
                IsMaxOf(result["size_bits"], FieldBits(arg[2]))

C6_Witness ==
    /\ kind = "Section"
    /\ arg = <<"Union", <<Int32, Int8>>>>
    /\ Returned("sizeof") /\ result["sizeof"] = 4
    /\ Returned("size_bits") /\ result["size_bits"] = 32

\* C7: sizeof(Array(e, n)) = sizeof(e) * n and size_bits(Array(e, n)) =
\* size_bits(e) * n for every element section and count, 0 for n = 0.
C7_ArrayMultiplicative ==
    (kind = "Section" /\ arg[1] = "Array") =>
        /\ Returned("sizeof") =>
            /\ result["sizeof"] = Section_sizeof(arg[2]) * arg[3]
            /\ arg[3] = 0 => result["sizeof"] = 0
        /\ Returned("size_bits") =>
            /\ result["size_bits"] = Section_size_bits(arg[2]) * arg[3]
            /\ arg[3] = 0 => result["size_bits"] = 0

C7_Witness ==
    /\ kind = "Section"
    /\ arg = <<"Array", <<"Struct", <<Int16, Int8>>>>, 2>>
    /\ Returned("sizeof") /\ result["sizeof"] = 8
    /\ Returned("size_bits") /\ result["size_bits"] = 8

\* C8: a struct with exactly one field f has the size of f under both
\* queries: sizeof(Struct[f]) = sizeof(f) and size_bits(Struct[f]) =
\* size_bits(f).
C8_SingleFieldStruct ==
    (kind = "Section" /\ arg[1] = "Struct" /\ Len(arg[2]) = 1) =>
        /\ Returned("sizeof") => result["sizeof"] = Section_sizeof(arg[2][1])
        /\ Returned("size_bits") =>
                result["size_bits"] = Section_size_bits(arg[2][1])

\* C9: for every Struct section, whatever its fields, size_bits returns the
\* same number as sizeof.
C9_StructBitsEqualBytes ==
    (kind = "Section" /\ arg[1] = "Struct"
        /\ Returned("sizeof") /\ Returned("size_bits"))
        => result["size_bits"] = result["sizeof"]

C9_Witness ==
    /\ kind = "Section"
    /\ arg = <<"Struct", <<Bits3, Int8>>>>
    /\ Returned("sizeof") /\ result["sizeof"] = 4
    /\ Returned("size_bits") /\ result["size_bits"] = 4

\* offset the sizeof fold gives field i of a struct with these field sizes
FieldOffset(sizes, i) == align_to(struct_running(sizes, i - 1), sizes[i])

\* C10: in Array(S, n) of a Struct S, for every element k and every field i
\* with sizeof(f_i) > 0 the absolute offset k * sizeof(S) + offset_i is a
\* multiple of sizeof(f_i).
C10_ArrayOfStructAligned ==
    (kind = "Section" /\ arg[1] = "Array" /\ arg[2][1] = "Struct"
        /\ Returned("sizeof")) =>
        LET S == arg[2]
            sizes == FieldSizes(S[2])
            stride == Section_sizeof(S)
        IN  /\ result["sizeof"] = stride * arg[3]
            /\ \A k \in 0..(arg[3] - 1) : \A i \in 1..Len(sizes) :
                    sizes[i] > 0 =>
                        (k * stride + FieldOffset(sizes, i)) % sizes[i] = 0

====
